---- MODULE Spec2Model ----
(***************************************************************************)
(* The products REST API: the routes of src/router.ts (validation chains,  *)
(* handleInputErrors, handler), the express-validator rules they use, and  *)
(* the product handlers over the product table.                            *)
(*                                                                         *)
(* Strings that a validator inspects are sequences of one-character        *)
(* strings, so that the validators' regular expressions and JavaScript's   *)
(* string-to-number conversion are computed, not assumed.                  *)
(***************************************************************************)
EXTENDS Integers, Sequences, FiniteSets, TLC

(***************************************************************************)
(* Bounds of the model.                                                    *)
(***************************************************************************)
\* how many products are ever created (caps the auto-increment counter)
MaxProducts == 2
\* how many concurrent clients the concurrent specification runs
NumClients == 2
\* an id no product ever gets (product.test.ts uses 2000 for it)
AbsentId == 2000

(***************************************************************************)
(* JavaScript values of a request: a JSON body field or a path parameter.  *)
(***************************************************************************)
Undefined == [t |-> "undefined", n |-> 0, s |-> <<>>, b |-> FALSE]
Num(n) == [t |-> "number", n |-> n, s |-> <<>>, b |-> FALSE]
Str(s) == [t |-> "string", n |-> 0, s |-> s, b |-> FALSE]
Bool(b) == [t |-> "boolean", n |-> 0, s |-> <<>>, b |-> b]

Digits == <<"0", "1", "2", "3", "4", "5", "6", "7", "8", "9">>

IsDigit(c) == \E i \in 1..10 : Digits[i] = c

DigitValue(c) == (CHOOSE i \in 1..10 : Digits[i] = c) - 1

AllDigits(s) == \A i \in 1..Len(s) : IsDigit(s[i])

RECURSIVE NatToStr(_)
\* String(n) for a natural number n
NatToStr(n) == IF n < 10 THEN <<Digits[n + 1]>>
               ELSE NatToStr(n \div 10) \o <<Digits[(n % 10) + 1]>>

\* String(n) for an integer n
IntToStr(n) == IF n < 0 THEN <<"-">> \o NatToStr(0 - n) ELSE NatToStr(n)

RECURSIVE DigitsToNat(_)
\* the value of a sequence of decimal digits
DigitsToNat(s) == IF s = <<>> THEN 0
                  ELSE 10 * DigitsToNat(SubSeq(s, 1, Len(s) - 1)) + DigitValue(s[Len(s)])

\* s without one leading sign character
Unsigned(s) == IF s # <<>> /\ s[1] \in {"+", "-"} THEN Tail(s) ELSE s

\* express-validator's toString: what the standard validators are given
toString(v) == CASE v.t = "string" -> v.s
                 [] v.t = "number" -> IntToStr(v.n)
                 [] v.t = "boolean" -> IF v.b THEN <<"t", "r", "u", "e">>
                                       ELSE <<"f", "a", "l", "s", "e">>
                 [] OTHER -> <<>>

(***************************************************************************)
(* The validators of validator.js that the chains name, on a string.       *)
(***************************************************************************)
\* isInt: /^[-+]?[0-9]+$/ (leading zeroes are allowed by default)
isInt(s) == LET u == Unsigned(s) IN u # <<>> /\ AllDigits(u)

\* isNumeric: /^[+-]?([0-9]*[.])?[0-9]+$/
isNumeric(s) ==
    LET u == Unsigned(s)
    IN \/ u # <<>> /\ AllDigits(u)
       \/ \E i \in 1..Len(u) :
            /\ u[i] = "."
            /\ AllDigits(SubSeq(u, 1, i - 1))
            /\ i < Len(u)
            /\ AllDigits(SubSeq(u, i + 1, Len(u)))

\* isEmpty: the string has length 0 (ignore_whitespace is off)
isEmpty(s) == Len(s) = 0

\* isBoolean: one of 'true', 'false', '1', '0'
isBoolean(s) == s \in {<<"t", "r", "u", "e">>, <<"f", "a", "l", "s", "e">>, <<"1">>, <<"0">>}

(***************************************************************************)
(* JavaScript's value > 0 of the custom price validator: ToNumber(value)   *)
(* and then the comparison; NaN > 0 is false.                              *)
(***************************************************************************)
RECURSIVE Trim(_)
\* StringToNumber strips the white space around the literal
Trim(s) == IF s # <<>> /\ s[1] = " " THEN Trim(Tail(s))
           ELSE IF s # <<>> /\ s[Len(s)] = " " THEN Trim(SubSeq(s, 1, Len(s) - 1))
           ELSE s

\* the index of the exponent mark of a literal, 0 when it has none
ExponentAt(u) == IF \E i \in 1..Len(u) : u[i] \in {"e", "E"}
                 THEN CHOOSE i \in 1..Len(u) :
                        /\ u[i] \in {"e", "E"}
                        /\ \A j \in 1..(i - 1) : u[j] \notin {"e", "E"}
                 ELSE 0

\* DecimalDigits . DecimalDigits? | . DecimalDigits | DecimalDigits
IsMantissa(m) ==
    /\ \E i \in 1..Len(m) : IsDigit(m[i])
    /\ \A i \in 1..Len(m) : IsDigit(m[i]) \/ m[i] = "."
    /\ Cardinality({i \in 1..Len(m) : m[i] = "."}) <= 1

\* a string is > 0 when it is a StrDecimalLiteral without a minus sign whose
\* mantissa has a digit other than 0; the empty string converts to 0, and
\* anything that is no literal to NaN. (Radix-prefixed literals, Infinity and
\* exponents that underflow to 0 are not among the strings of this model.)
StringGreaterThanZero(s) ==
    LET t == Trim(s)
        u == Unsigned(t)
        e == ExponentAt(u)
        m == IF e = 0 THEN u ELSE SubSeq(u, 1, e - 1)
        x == IF e = 0 THEN <<"0">> ELSE SubSeq(u, e + 1, Len(u))
    IN /\ t # <<>>
       /\ t[1] # "-"
       /\ IsMantissa(m)
       /\ isInt(x)
       /\ \E i \in 1..Len(m) : IsDigit(m[i]) /\ m[i] # "0"

\* value > 0
GreaterThanZero(v) == CASE v.t = "number" -> v.n > 0
                        [] v.t = "boolean" -> v.b
                        [] v.t = "string" -> StringGreaterThanZero(v.s)
                        [] OTHER -> FALSE

(***************************************************************************)
(* The routes of the router: each is a stack of validation chains, the     *)
(* handleInputErrors middleware and the handler, run in that order.        *)
(***************************************************************************)
Rule(fn, msg) == [fn |-> fn, msg |-> msg]

Chain(location, field, rules) ==
    [kind |-> "chain", name |-> "", location |-> location, field |-> field, rules |-> rules]

Use(kind, name) ==
    [kind |-> kind, name |-> name, location |-> "", field |-> "", rules |-> <<>>]

ParamId == Chain("params", "id", <<Rule("isInt", "ID no válido")>>)

BodyName == Chain("body", "name",
                  <<Rule("notEmpty", "El nombre del producto no puede ir vacio")>>)

BodyPrice == Chain("body", "price",
                   <<Rule("isNumeric", "Valor no válido"),
                     Rule("notEmpty", "El precio del producto no puede ir vacio"),
                     Rule("custom", "Precio no válido")>>)

BodyAvailability == Chain("body", "availability",
                          <<Rule("isBoolean", "Valor para disponibilidad no válido")>>)

HandleInputErrors == Use("middleware", "handleInputErrors")

\* router.get("/", getProducts)
RouterGet == [method |-> "GET", path |-> "/",
              stack |-> <<Use("handler", "getProducts")>>]

\* GET /:id bound to the handler of GET /
RouterGetIdLists == [method |-> "GET", path |-> "/:id",
                     stack |-> <<ParamId, HandleInputErrors, Use("handler", "getProducts")>>]

\* router.get("/:id", ...)
RouterGetId == [method |-> "GET", path |-> "/:id",
                stack |-> <<ParamId, HandleInputErrors, Use("handler", "getProductById")>>]

\* the price chain of POST without notEmpty
RouterPostNoPriceNotEmpty ==
    [method |-> "POST", path |-> "/",
     stack |-> <<BodyName,
                 Chain("body", "price", <<Rule("isNumeric", "Valor no válido"),
                                          Rule("custom", "Precio no válido")>>),
                 HandleInputErrors, Use("handler", "createProduct")>>]

\* the price chain of POST without the custom value > 0
RouterPostNoPriceCustom ==
    [method |-> "POST", path |-> "/",
     stack |-> <<BodyName,
                 Chain("body", "price",
                       <<Rule("isNumeric", "Valor no válido"),
                         Rule("notEmpty", "El precio del producto no puede ir vacio")>>),
                 HandleInputErrors, Use("handler", "createProduct")>>]

\* router.post("/", ...)
RouterPost == [method |-> "POST", path |-> "/",
               stack |-> <<BodyName, BodyPrice, HandleInputErrors,
                           Use("handler", "createProduct")>>]

\* PUT without handleInputErrors between its chains and its handler
RouterPutNoHandleInputErrors ==
    [method |-> "PUT", path |-> "/:id",
     stack |-> <<ParamId, BodyName, BodyPrice, BodyAvailability,
                 Use("handler", "updateProduct")>>]

\* PUT bound to the handler of POST
RouterPutCreates ==
    [method |-> "PUT", path |-> "/:id",
     stack |-> <<ParamId, BodyName, BodyPrice, BodyAvailability,
                 HandleInputErrors, Use("handler", "createProduct")>>]

\* router.put("/:id", ...)
RouterPut == [method |-> "PUT", path |-> "/:id",
              stack |-> <<ParamId, BodyName, BodyPrice, BodyAvailability,
                          HandleInputErrors, Use("handler", "updateProduct")>>]

\* PATCH without the rule on its id
RouterPatchNoParamId ==
    [method |-> "PATCH", path |-> "/:id",
     stack |-> <<HandleInputErrors, Use("handler", "updateAvailability")>>]

\* PATCH bound to the handler of PUT
RouterPatchUpdatesProduct ==
    [method |-> "PATCH", path |-> "/:id",
     stack |-> <<ParamId, HandleInputErrors, Use("handler", "updateProduct")>>]

\* PATCH bound to the handler of DELETE
RouterPatchDeletes ==
    [method |-> "PATCH", path |-> "/:id",
     stack |-> <<ParamId, HandleInputErrors, Use("handler", "deleteProduct")>>]

\* router.patch("/:id", ...)
RouterPatch == [method |-> "PATCH", path |-> "/:id",
                stack |-> <<ParamId, HandleInputErrors,
                            Use("handler", "updateAvailability")>>]

\* DELETE bound to the handler of GET /:id
RouterDeleteGets ==
    [method |-> "DELETE", path |-> "/:id",
     stack |-> <<ParamId, HandleInputErrors, Use("handler", "getProductById")>>]

\* router.delete("/:id", ...)
RouterDelete == [method |-> "DELETE", path |-> "/:id",
                 stack |-> <<ParamId, HandleInputErrors, Use("handler", "deleteProduct")>>]

Routes == {RouterGet, RouterGetId, RouterPost, RouterPut, RouterPatch, RouterDelete}

(***************************************************************************)
(* Requests and responses.                                                 *)
(***************************************************************************)
\* a JSON body; a field that is absent is Undefined
Body(name, price, availability) ==
    [name |-> name, price |-> price, availability |-> availability]

\* a request; id is the path parameter, <<>> on the collection path
Request(method, id, body) == [method |-> method, id |-> id, body |-> body]

NoRequest == Request("", <<>>, Body(Undefined, Undefined, Undefined))

\* a response: its status and the properties of its JSON body. data is a
\* product (kind "product"), the list of products ("list") or a text ("text").
Response(status, keys, kind, data, text, errors) ==
    [status |-> status, keys |-> keys, kind |-> kind, data |-> data,
     text |-> text, errors |-> errors]

NoResponse == Response(0, {}, "none", <<>>, "", <<>>)

\* Express matches the method and the path
RouteOf(rq) == CHOOSE r \in Routes :
                  /\ r.method = rq.method
                  /\ r.path = (IF rq.id = <<>> THEN "/" ELSE "/:id")

\* the value a chain selects from the request
FieldValue(chain, rq) ==
    CASE chain.location = "params" -> Str(rq.id)
      [] chain.field = "name" -> rq.body.name
      [] chain.field = "price" -> rq.body.price
      [] OTHER -> rq.body.availability

\* whether value passes the validator fn
Passes(fn, v) ==
    CASE fn = "isInt" -> isInt(toString(v))
      [] fn = "notEmpty" -> ~isEmpty(toString(v))
      [] fn = "isNumeric" -> isNumeric(toString(v))
      [] fn = "isBoolean" -> isBoolean(toString(v))
      [] OTHER -> GreaterThanZero(v)

RECURSIVE ChainErrors(_, _, _)
\* the errors of a chain from its rule i on: every rule runs (there is no
\* bail), and each failing one adds an error carrying its message
ChainErrors(chain, rq, i) ==
    IF i > Len(chain.rules) THEN <<>>
    ELSE (IF Passes(chain.rules[i].fn, FieldValue(chain, rq)) THEN <<>>
          ELSE <<[msg |-> chain.rules[i].msg, path |-> chain.field,
                  location |-> chain.location]>>)
         \o ChainErrors(chain, rq, i + 1)

RECURSIVE ValidationErrors(_, _, _)
\* validationResult(req).array() after the first n entries of a stack have
\* run: the errors of its chains, in the order the chains are declared (each
\* chain is a middleware that runs and passes on, whether or not it failed)
ValidationErrors(stack, rq, n) ==
    IF n = 0 THEN <<>>
    ELSE ValidationErrors(stack, rq, n - 1)
         \o (IF stack[n].kind = "chain" THEN ChainErrors(stack[n], rq, 1) ELSE <<>>)

(***************************************************************************)
(* The product table. A row is [id, name, price, availability]; the table  *)
(* is the set of its rows, and nextId the auto-increment counter of id.    *)
(***************************************************************************)
Row(id, name, price, availability) ==
    [id |-> id, name |-> name, price |-> price, availability |-> availability]

Ids(table) == {r.id : r \in table}

\* the integer a path parameter denotes as a primary key
PkOf(s) == IF s[1] = "-" THEN 0 - DigitsToNat(Tail(s)) ELSE DigitsToNat(Unsigned(s))

\* findByPk: the rows with that primary key (none, or the one)
FindByPk(table, id) == {r \in table : r.id = PkOf(id)}

\* whether the store can take the value into the text column name
IsText(v) == v.t \in {"string", "number", "boolean"}

\* whether the store can take the value into the numeric column price
IsNumber(v) == v.t = "number" \/ (v.t = "string" /\ isInt(v.s))

NumberOf(v) == IF v.t = "number" THEN v.n ELSE PkOf(v.s)

\* whether the store can take the value into the boolean column availability
IsBool(v) == v.t = "boolean" \/ isBoolean(toString(v))

BoolOf(v) == IF v.t = "boolean" THEN v.b ELSE toString(v) \in {<<"t", "r", "u", "e">>, <<"1">>}

\* UPDATE ... SET name, price, availability WHERE id = old.id: the row is
\* rewritten in place, and nothing happens when no row has that id any more
UpdateRow(table, old, new) ==
    {IF r.id = old.id THEN new ELSE r : r \in table}

\* UPDATE ... SET availability WHERE id = old.id: the one column is written
SaveAvailability(table, old, value) ==
    {IF r.id = old.id THEN [r EXCEPT !.availability = value] ELSE r : r \in table}

\* DELETE ... WHERE id = old.id
DestroyRow(table, old) == {r \in table : r.id # old.id}

RECURSIVE OrderById(_)
\* the rows of the table as a sequence, by id
OrderById(table) ==
    IF table = {} THEN <<>>
    ELSE LET first == CHOOSE r \in table : \A q \in table : r.id <= q.id
         IN <<first>> \o OrderById(table \ {first})

(***************************************************************************)
(* The handlers. Each takes the context of the request being served, ctx =  *)
(* [table, nextId, response, ran], and gives the context after it.          *)
(***************************************************************************)
Json(ctx, handler, response) == [ctx EXCEPT !.response = response, !.ran = handler]

NotFound == Response(404, {"error"}, "none", <<>>, "Producto no encontrado", <<>>)

\* a failure of the store that no handler catches
ServerError == Response(500, {}, "none", <<>>, "", <<>>)

getProducts(ctx, rq) ==
    Json(ctx, "getProducts",
         Response(200, {"data"}, "list", OrderById(ctx.table), "", <<>>))

\* getProductById once findByPk has answered found
getProductByIdFound(ctx, rq, found) ==
    IF found = {} THEN Json(ctx, "getProductById", NotFound)
    ELSE Json(ctx, "getProductById",
              Response(200, {"data"}, "product", <<CHOOSE r \in found : TRUE>>, "", <<>>))

createProduct(ctx, rq) ==
    IF ~(IsText(rq.body.name) /\ IsNumber(rq.body.price))
    THEN Json(ctx, "createProduct", ServerError)
    ELSE LET product == Row(ctx.nextId, toString(rq.body.name),
                            NumberOf(rq.body.price), TRUE)
         IN Json([ctx EXCEPT !.table = ctx.table \cup {product},
                             !.nextId = ctx.nextId + 1],
                 "createProduct",
                 Response(201, {"data"}, "product", <<product>>, "", <<>>))

\* updateProduct once findByPk has answered found
updateProductFound(ctx, rq, found) ==
    IF found = {} THEN Json(ctx, "updateProduct", NotFound)
    ELSE IF ~(IsText(rq.body.name) /\ IsNumber(rq.body.price)
              /\ IsBool(rq.body.availability))
    THEN Json(ctx, "updateProduct", ServerError)
    ELSE LET old == CHOOSE r \in found : TRUE
             product == Row(old.id, toString(rq.body.name), NumberOf(rq.body.price),
                            BoolOf(rq.body.availability))
         IN Json([ctx EXCEPT !.table = UpdateRow(ctx.table, old, product)],
                 "updateProduct",
                 Response(200, {"data"}, "product", <<product>>, "", <<>>))

\* updateAvailability once findByPk has answered found
updateAvailabilityFound(ctx, rq, found) ==
    IF found = {} THEN Json(ctx, "updateAvailability", NotFound)
    ELSE LET old == CHOOSE r \in found : TRUE
             product == [old EXCEPT !.availability = ~old.availability]
         IN Json([ctx EXCEPT !.table = SaveAvailability(ctx.table, old,
                                                        product.availability)],
                 "updateAvailability",
                 Response(200, {"data"}, "product", <<product>>, "", <<>>))

\* deleteProduct once findByPk has answered found
deleteProductFound(ctx, rq, found) ==
    IF found = {} THEN Json(ctx, "deleteProduct", NotFound)
    ELSE LET old == CHOOSE r \in found : TRUE
         IN Json([ctx EXCEPT !.table = DestroyRow(ctx.table, old)],
                 "deleteProduct",
                 Response(200, {"data"}, "text", <<>>, "Producto Eliminado", <<>>))

\* the part of a handler that follows its findByPk
AfterFind(name, ctx, rq, found) ==
    CASE name = "getProductById" -> getProductByIdFound(ctx, rq, found)
      [] name = "updateProduct" -> updateProductFound(ctx, rq, found)
      [] name = "updateAvailability" -> updateAvailabilityFound(ctx, rq, found)
      [] OTHER -> deleteProductFound(ctx, rq, found)

\* a handler, run from its start to its response with nothing in between
Handler(name, ctx, rq) ==
    CASE name = "getProducts" -> getProducts(ctx, rq)
      [] name = "createProduct" -> createProduct(ctx, rq)
      [] ~isInt(rq.id) -> Json(ctx, name, ServerError)
      [] OTHER -> AfterFind(name, ctx, rq, FindByPk(ctx.table, rq.id))

\* handleInputErrors: with validation errors it answers 400 with them and
\* the stack stops; without, it calls next()
handleInputErrors(ctx, errors) ==
    IF errors # <<>>
    THEN [ctx EXCEPT !.response = Response(400, {"errors"}, "none", <<>>, "", errors)]
    ELSE ctx

RECURSIVE RunStack(_, _, _, _)
\* the stack of a route from its entry i on, until one entry responds
RunStack(stack, i, ctx, rq) ==
    IF i > Len(stack) \/ ctx.response # NoResponse THEN ctx
    ELSE CASE stack[i].kind = "chain" -> RunStack(stack, i + 1, ctx, rq)
           [] stack[i].kind = "middleware" ->
                RunStack(stack, i + 1,
                         handleInputErrors(ctx, ValidationErrors(stack, rq, i - 1)), rq)
           [] OTHER -> Handler(stack[i].name, ctx, rq)

\* the request served on a table: the context when the response is sent
Serve(table, next, rq) ==
    RunStack(RouteOf(rq).stack, 1,
             [table |-> table, nextId |-> next, response |-> NoResponse, ran |-> "none"],
             rq)

(***************************************************************************)
(* The state: the table and its counter, the last request served and its   *)
(* response, and what the clients have observed so far.                    *)
(***************************************************************************)
VARIABLES
    table,      \* the rows of the product table
    nextId,     \* the next value of the auto-increment id
    request,    \* the last request served
    response,   \* its response
    ran,        \* the handler that ran for it, "none" when none did
    assigned,   \* the ids that 201 responses have carried
    deleted,    \* the ids whose DELETE was answered 200
    nCreated,   \* how many requests were answered 201
    nDeleted,   \* how many DELETE requests were answered 200
    clients     \* the requests in flight of the concurrent specification

vars == <<table, nextId, request, response, ran, assigned, deleted, nCreated, nDeleted,
          clients>>

Mouse == <<"M", "o", "u", "s", "e">>

Monitor == <<"M", "o", "n", "i", "t", "o", "r">>

Hola == <<"h", "o", "l", "a">>

\* the bodies of the requests of the serial specification
Bodies ==
    { Body(Undefined, Undefined, Undefined),
      Body(Str(Mouse), Num(50), Undefined),
      Body(Str(Mouse), Num(0), Undefined),
      Body(Str(Mouse), Str(Hola), Undefined),
      Body(Str(<<>>), Num(50), Bool(TRUE)),
      Body(Str(Monitor), Num(300), Bool(TRUE)),
      Body(Str(Monitor), Num(300), Bool(FALSE)),
      Body(Str(Monitor), Num(-300), Bool(TRUE)),
      Body(Str(Mouse), Num(50), Str(Hola)) }

\* the path parameters of the requests: every id the table can hold, an id
\* it never holds, and one that is no integer
PathIds == {IntToStr(i) : i \in 1..MaxProducts} \cup {IntToStr(AbsentId), <<"a", "b", "c">>}

IdleClients == [c \in 1..NumClients |->
                  [pc |-> "idle", request |-> NoRequest, found |-> {},
                   response |-> NoResponse]]

Init ==
    /\ table = {}
    /\ nextId = 1
    /\ request = NoRequest
    /\ response = NoResponse
    /\ ran = "none"
    /\ assigned = {}
    /\ deleted = {}
    /\ nCreated = 0
    /\ nDeleted = 0
    /\ clients = IdleClients

\* the request that arrived is served, from its arrival to its response
Served ==
    \E out \in {Serve(table, nextId, request')} :
      LET created == out.response.status = 201 /\ out.response.kind = "product"
          removed == /\ request'.method = "DELETE"
                     /\ out.response.status = 200
                     /\ isInt(request'.id)
      IN /\ table' = out.table
         /\ nextId' = out.nextId
         /\ response' = out.response
         /\ ran' = out.ran
         /\ assigned' = IF created THEN assigned \cup {out.response.data[1].id}
                        ELSE assigned
         /\ deleted' = IF removed THEN deleted \cup {PkOf(request'.id)} ELSE deleted
         /\ nCreated' = IF created THEN nCreated + 1 ELSE nCreated
         /\ nDeleted' = IF removed THEN nDeleted + 1 ELSE nDeleted
         /\ UNCHANGED clients

\* GET /api/products
GetProducts(B) ==
    \E b \in B :
      /\ request' = Request("GET", <<>>, b)
      /\ Served

\* GET /api/products/:id
GetProductById(P, B) ==
    \E id \in P, b \in B :
      /\ request' = Request("GET", id, b)
      /\ Served

\* POST /api/products
CreateProduct(B) ==
    \E b \in B :
      /\ nextId <= MaxProducts
      /\ request' = Request("POST", <<>>, b)
      /\ Served

\* PUT /api/products/:id
UpdateProduct(P, B) ==
    \E id \in P, b \in B :
      /\ request' = Request("PUT", id, b)
      /\ Served

\* PATCH /api/products/:id
UpdateAvailability(P, B) ==
    \E id \in P, b \in B :
      /\ request' = Request("PATCH", id, b)
      /\ Served

\* DELETE /api/products/:id
DeleteProduct(P, B) ==
    \E id \in P, b \in B :
      /\ request' = Request("DELETE", id, b)
      /\ Served

\* the bodies sent where the route reads none: an empty one and a full one
BareBodies == {Body(Undefined, Undefined, Undefined),
               Body(Str(Monitor), Num(300), Bool(FALSE))}

Next ==
    \/ GetProducts(BareBodies)
    \/ GetProductById(PathIds, BareBodies)
    \/ CreateProduct(Bodies)
    \/ UpdateProduct(PathIds, Bodies)
    \/ UpdateAvailability(PathIds, BareBodies)
    \/ DeleteProduct(PathIds, BareBodies)

\* requests served one after the other, each from its arrival to its response
Spec == Init /\ [][Next]_vars

(***************************************************************************)
(* The validation of one request, over every combination of field values:  *)
(* one request is served, on an empty table or on a table of one product.  *)
(***************************************************************************)
NameValues == {Undefined, Str(<<>>), Str(Mouse), Str(<<" ">>), Num(0)}

PriceValues == {Undefined, Num(0), Num(-300), Num(50), Str(<<>>), Str(Hola),
                Str(<<"1", "e", "3">>), Str(<<"5", "0">>), Str(<<"-", "5">>),
                Str(<<"0">>), Bool(TRUE)}

AvailabilityValues == {Undefined, Bool(TRUE), Bool(FALSE), Str(Hola), Str(<<"1">>), Num(1)}

AllBodies == {Body(n, p, a) : n \in NameValues, p \in PriceValues, a \in AvailabilityValues}

AllPathIds == {<<"1">>, IntToStr(AbsentId), <<"a", "b", "c">>, <<"1", ".", "5">>,
               <<"-", "1">>, <<"0", "1">>, <<"1", "e", "3">>}

InitV ==
    /\ \E n \in 0..1 :
         /\ table = {Row(i, Mouse, 50, TRUE) : i \in 1..n}
         /\ nextId = n + 1
         /\ assigned = 1..n
         /\ nCreated = n
    /\ request = NoRequest
    /\ response = NoResponse
    /\ ran = "none"
    /\ deleted = {}
    /\ nDeleted = 0
    /\ clients = IdleClients

\* no request has been served yet
Fresh == request = NoRequest

NextV ==
    \/ Fresh /\ GetProducts(AllBodies)
    \/ Fresh /\ GetProductById(AllPathIds, AllBodies)
    \/ Fresh /\ CreateProduct(AllBodies)
    \/ Fresh /\ UpdateProduct(AllPathIds, AllBodies)
    \/ Fresh /\ UpdateAvailability(AllPathIds, AllBodies)
    \/ Fresh /\ DeleteProduct(AllPathIds, AllBodies)

SpecV == InitV /\ [][NextV]_vars

(***************************************************************************)
(* Concurrent requests on one product. A handler awaits findByPk and then  *)
(* awaits the write; other requests run between the two.                   *)
(***************************************************************************)
\* the requests the clients send: all on product 1
ClientRequests ==
    { Request("PATCH", <<"1">>, Body(Undefined, Undefined, Undefined)),
      Request("PUT", <<"1">>, Body(Str(Monitor), Num(300), Bool(TRUE))),
      Request("PUT", <<"1">>, Body(Str(Monitor), Num(-300), Bool(TRUE))),
      Request("DELETE", <<"1">>, Body(Undefined, Undefined, Undefined)) }

\* the handler a route ends with
HandlerOf(rq) == LET stack == RouteOf(rq).stack IN stack[Len(stack)].name

InitC ==
    /\ table = {Row(1, Mouse, 50, TRUE)}
    /\ nextId = 2
    /\ request = NoRequest
    /\ response = NoResponse
    /\ ran = "none"
    /\ assigned = {1}
    /\ deleted = {}
    /\ nCreated = 1
    /\ nDeleted = 0
    /\ clients = IdleClients

\* a request arrives: its chains and handleInputErrors run (they read no
\* row), and the handler starts unless the request was answered 400
Arrive(c) ==
    /\ clients[c].pc = "idle"
    /\ \E rq \in ClientRequests :
         \E out \in {Serve(table, nextId, rq)} :
           clients' = [clients EXCEPT ![c] =
                         IF out.ran = "none"
                         THEN [pc |-> "done", request |-> rq, found |-> {},
                               response |-> out.response]
                         ELSE [pc |-> "find", request |-> rq, found |-> {},
                               response |-> NoResponse]]
    /\ UNCHANGED <<table, nextId, request, response, ran, assigned, deleted,
                   nCreated, nDeleted>>

\* await Product.findByPk(id)
Find(c) ==
    /\ clients[c].pc = "find"
    /\ clients' = [clients EXCEPT ![c].pc = "write",
                                  ![c].found = FindByPk(table, clients[c].request.id)]
    /\ UNCHANGED <<table, nextId, request, response, ran, assigned, deleted,
                   nCreated, nDeleted>>

\* the rest of the handler: the 404, or the write of the row that was found
\* and the response
Write(c) ==
    /\ clients[c].pc = "write"
    /\ \E out \in {AfterFind(HandlerOf(clients[c].request),
                             [table |-> table, nextId |-> nextId,
                              response |-> NoResponse, ran |-> "none"],
                             clients[c].request, clients[c].found)} :
         /\ table' = out.table
         /\ clients' = [clients EXCEPT ![c].pc = "done", ![c].response = out.response]
    /\ UNCHANGED <<nextId, request, response, ran, assigned, deleted, nCreated, nDeleted>>

NextC == \E c \in 1..NumClients : Arrive(c) \/ Find(c) \/ Write(c)

SpecC == InitC /\ [][NextC]_vars

(***************************************************************************)
(* What the claims speak of.                                               *)
(***************************************************************************)
\* the request is on /api/products/:id
OnId(rq) == rq.id # <<>>

\* every validation error of a request on its route
Errors(rq) == LET stack == RouteOf(rq).stack IN ValidationErrors(stack, rq, Len(stack))

\* the messages of a list of errors
Messages(errors) == [i \in 1..Len(errors) |-> errors[i].msg]

\* <<m>> when the rule fails, <<>> when it holds
Failing(holds, m) == IF holds THEN <<>> ELSE <<m>>

\* name non-empty, price numeric, price non-empty, price > 0
ExpectedPostErrors(b) ==
    Failing(toString(b.name) # <<>>, "El nombre del producto no puede ir vacio")
    \o Failing(isNumeric(toString(b.price)), "Valor no válido")
    \o Failing(toString(b.price) # <<>>, "El precio del producto no puede ir vacio")
    \o Failing(GreaterThanZero(b.price), "Precio no válido")

\* availability boolean
ExpectedAvailabilityErrors(b) ==
    Failing(isBoolean(toString(b.availability)), "Valor para disponibilidad no válido")

\* id integer, then the rules of the body
ExpectedPutErrors(id, b) ==
    Failing(isInt(id), "ID no válido") \o ExpectedPostErrors(b)
    \o ExpectedAvailabilityErrors(b)

\* the body of a request answered 400: an errors list and nothing else
IsBadRequest(r) ==
    r.status = 400 /\ r.keys = {"errors"} /\ r.kind = "none" /\ r.errors # <<>>

EmptyBody == Body(Undefined, Undefined, Undefined)

(***************************************************************************)
(* C1: on every route with validation rules, a request that fails at least *)
(* one rule is answered 400 with an errors list and no data, no handler    *)
(* runs and the table and its counter are unchanged, whether or not the id *)
(* exists (so never 404).                                                  *)
(***************************************************************************)
C1_InvalidRequestRejected ==
    [][Errors(request') # <<>> =>
         /\ IsBadRequest(response')
         /\ ran' = "none"
         /\ table' = table
         /\ nextId' = nextId]_vars

\* an invalid PUT on an id that is absent from a table that holds a product
C1_Witness ==
    /\ request.method = "PUT"
    /\ isInt(request.id)
    /\ table # {}
    /\ PkOf(request.id) \notin Ids(table)
    /\ response.status = 400

(***************************************************************************)
(* C2 as stated: GET, PUT, PATCH and DELETE with an id that is no integer  *)
(* are answered 400 with exactly one error, the id-invalid one, for every  *)
(* request body.                                                           *)
(***************************************************************************)
C2_OneErrorForEveryBody ==
    [][(OnId(request') /\ ~isInt(request'.id)) =>
         /\ response'.status = 400
         /\ Len(response'.errors) = 1
         /\ response'.errors[1].msg = "ID no válido"]_vars

(***************************************************************************)
(* C2 amended: with an id that is no integer the answer is 400 and its     *)
(* first error is the id-invalid one; it is the only error for GET, PATCH  *)
(* and DELETE with every body, and for PUT it is followed by one error per *)
(* failing body rule, so it is the only one exactly when the body is valid.*)
(***************************************************************************)
C2_IdErrorFirst ==
    [][(OnId(request') /\ ~isInt(request'.id)) =>
         /\ IsBadRequest(response')
         /\ response'.errors[1] = [msg |-> "ID no válido", path |-> "id",
                                   location |-> "params"]
         /\ request'.method # "PUT" => Len(response'.errors) = 1
         /\ request'.method = "PUT" =>
              Len(response'.errors)
                = 1 + Len(ExpectedPostErrors(request'.body))
                    + Len(ExpectedAvailabilityErrors(request'.body))]_vars

\* PUT /api/products/abc with an empty body: six errors
C2_Witness ==
    /\ request.method = "PUT"
    /\ ~isInt(request.id)
    /\ request.body = EmptyBody
    /\ response.status = 400
    /\ Len(response.errors) = 6

(***************************************************************************)
(* C3, the rule: every rule is evaluated, and the errors are the failing   *)
(* rules in declaration order: for POST those of [name non-empty, price    *)
(* numeric, price non-empty, price > 0], for PUT those of [id integer,     *)
(* name non-empty, price numeric, price non-empty, price > 0, availability *)
(* boolean]; a request with no failing rule is not answered 400.           *)
(***************************************************************************)
ErrorsAreFailingRules(rq, r) ==
    LET expected == IF rq.method = "POST" THEN ExpectedPostErrors(rq.body)
                    ELSE ExpectedPutErrors(rq.id, rq.body)
    IN rq.method \in {"POST", "PUT"} =>
         /\ expected # <<>> => IsBadRequest(r) /\ Messages(r.errors) = expected
         /\ expected = <<>> => r.status # 400

\* the cases C3 draws from the rule that hold
CountsOfFailingRules(rq, r) ==
    /\ (rq.method = "POST" /\ rq.body = EmptyBody) => Len(r.errors) = 4
    /\ (rq.method = "POST" /\ rq.body.name = Str(Mouse) /\ rq.body.price = Num(0)) =>
         Messages(r.errors) = <<"Precio no válido">>
    /\ (rq.method = "PUT" /\ isInt(rq.id) /\ rq.body = EmptyBody) => Len(r.errors) = 5
    /\ (rq.method = "PUT" /\ isInt(rq.id) /\ rq.body.name = Str(Mouse)
          /\ rq.body.price = Num(-300) /\ rq.body.availability \in {Bool(TRUE), Bool(FALSE)}) =>
         Messages(r.errors) = <<"Precio no válido">>

\* a price that is a string and not numeric, with a valid name, on POST
NonNumericPriceString(rq) ==
    /\ rq.method = "POST"
    /\ toString(rq.body.name) # <<>>
    /\ rq.body.price.t = "string"
    /\ ~isNumeric(rq.body.price.s)

(***************************************************************************)
(* C3 as stated: the rule and its cases, among them that a non-numeric     *)
(* price string gives exactly 2 errors (numeric and positivity).           *)
(***************************************************************************)
C3_NonNumericStringGivesTwo ==
    [][/\ ErrorsAreFailingRules(request', response')
       /\ CountsOfFailingRules(request', response')
       /\ NonNumericPriceString(request') =>
            Messages(response'.errors) = <<"Valor no válido", "Precio no válido">>]_vars

(***************************************************************************)
(* C3 amended: the rule and its other cases as stated; a non-numeric price *)
(* string gives exactly 2 errors (numeric and positivity) when it is not   *)
(* empty and JavaScript does not convert it to a number > 0, as "hola";    *)
(* the empty string gives 3 (numeric, non-empty, positivity) and a string  *)
(* that converts to a number > 0, as "1e3", gives 1 (numeric).             *)
(***************************************************************************)
C3_ErrorsAreFailingRulesInOrder ==
    [][/\ ErrorsAreFailingRules(request', response')
       /\ CountsOfFailingRules(request', response')
       /\ NonNumericPriceString(request') =>
            Messages(response'.errors) =
              (IF request'.body.price.s = <<>>
               THEN <<"Valor no válido", "El precio del producto no puede ir vacio",
                      "Precio no válido">>
               ELSE IF GreaterThanZero(request'.body.price)
               THEN <<"Valor no válido">>
               ELSE <<"Valor no válido", "Precio no válido">>)]_vars

\* POST with price "1e3": the one error is the numeric one
C3_Witness ==
    /\ request.method = "POST"
    /\ request.body.name = Str(Mouse)
    /\ request.body.price = Str(<<"1", "e", "3">>)
    /\ response.status = 400
    /\ Messages(response.errors) = <<"Valor no válido">>

(***************************************************************************)
(* C4: in every reachable state of the table, after any sequence of        *)
(* create, replace, toggle and delete requests, valid or not, every        *)
(* product has a price > 0 and a name that is not empty.                   *)
(***************************************************************************)
C4_PricePositiveNameNonEmpty ==
    \A r \in table : r.price > 0 /\ r.name # <<>>

\* a create with price 0 was just rejected on a table that holds a product
C4_Witness ==
    /\ request.method = "POST"
    /\ request.body.price = Num(0)
    /\ response.status = 400
    /\ table # {}

(***************************************************************************)
(* C5: an id is never reused or mutated: a successful create carries an id *)
(* that no create carried before (deleted products included), no two rows  *)
(* share an id, and replace and toggle leave the ids of the table as they  *)
(* are and answer with the id they were sent.                              *)
(***************************************************************************)
C5_IdNeverReusedOrMutated ==
    /\ [](\A r, q \in table : r.id = q.id => r = q)
    /\ [][/\ response'.status = 201 =>
               /\ response'.kind = "product"
               /\ response'.data[1].id \notin assigned \cup deleted \cup Ids(table)
               /\ response'.data[1] \in table'
          /\ request'.method \in {"PUT", "PATCH"} =>
               /\ Ids(table') = Ids(table)
               /\ response'.status = 200 =>
                    response'.data[1].id = PkOf(request'.id)]_vars

\* a create answered 201 after the product created before it was deleted
C5_Witness ==
    /\ request.method = "POST"
    /\ response.status = 201
    /\ deleted # {}
    /\ response.data[1].id \notin deleted

(***************************************************************************)
(* C6: PATCH on an existing id answers 200 and sets that product's         *)
(* availability to its complement, whatever the body; its id, name and     *)
(* price and every other product are unchanged, and the same PATCH served  *)
(* again gives back the table as it was before the first.                  *)
(***************************************************************************)
C6_PatchFlipsAvailability ==
    [][(request'.method = "PATCH" /\ isInt(request'.id)
          /\ FindByPk(table, request'.id) # {}) =>
         LET old == CHOOSE r \in FindByPk(table, request'.id) : TRUE
             new == [old EXCEPT !.availability = ~old.availability]
         IN /\ response'.status = 200
            /\ response'.data = <<new>>
            /\ table' = (table \ {old}) \cup {new}
            /\ nextId' = nextId
            /\ Serve(table', nextId', request').table = table]_vars

\* a PATCH that carried a full body flipped availability back to true
C6_Witness ==
    /\ request.method = "PATCH"
    /\ request.body # EmptyBody
    /\ response.status = 200
    /\ response.data[1].availability
    /\ response.data[1].name = Mouse
    /\ Cardinality(table) = 2

(***************************************************************************)
(* C7: DELETE on an existing id answers 200 with data "Producto Eliminado" *)
(* and removes the row for good: from then on the id is not in the table   *)
(* and every GET of it answers 404 "Producto no encontrado", whatever was  *)
(* requested in between.                                                   *)
(***************************************************************************)
C7_DeleteIsPermanent ==
    /\ [][(request'.method = "DELETE" /\ isInt(request'.id)
             /\ FindByPk(table, request'.id) # {}) =>
            /\ response' = Response(200, {"data"}, "text", <<>>, "Producto Eliminado", <<>>)
            /\ FindByPk(table', request'.id) = {}]_vars
    /\ [](\A id \in deleted :
            /\ id \notin Ids(table)
            /\ Serve(table, nextId, Request("GET", IntToStr(id), EmptyBody)).response
                 = NotFound)
    /\ []((request.method = "GET" /\ OnId(request) /\ isInt(request.id)
             /\ PkOf(request.id) \in deleted) => response = NotFound)

\* a GET of a deleted id answered 404 after a later create
C7_Witness ==
    /\ request.method = "GET"
    /\ OnId(request)
    /\ isInt(request.id)
    /\ PkOf(request.id) \in deleted
    /\ response.status = 404
    /\ \E r \in table : r.id > PkOf(request.id)

(***************************************************************************)
(* C8: GET /api/products answers 200 with a data list as long as the       *)
(* number of products created and not deleted (empty on an empty table);   *)
(* a request answered 400 or 404, a replace and a toggle leave that length *)
(* as it is.                                                               *)
(***************************************************************************)
C8_ListLength ==
    /\ [](LET r == Serve(table, nextId, Request("GET", <<>>, EmptyBody)).response
          IN /\ r.status = 200 /\ r.keys = {"data"} /\ r.kind = "list"
             /\ Len(r.data) = nCreated - nDeleted
             /\ {r.data[i] : i \in 1..Len(r.data)} = table)
    /\ []((request.method = "GET" /\ ~OnId(request)) =>
            response.status = 200 /\ Len(response.data) = nCreated - nDeleted)
    /\ [][(response'.status \in {400, 404} \/ request'.method \in {"PUT", "PATCH"}) =>
            Len(OrderById(table')) = Len(OrderById(table))]_vars

\* the list of one product after two creates and one delete
C8_Witness ==
    /\ request.method = "GET"
    /\ ~OnId(request)
    /\ response.status = 200
    /\ Len(response.data) = 1
    /\ nCreated = 2
    /\ nDeleted = 1

(***************************************************************************)
(* C9: GET, PUT, PATCH and DELETE on an integer id that is not in the      *)
(* table, the request being valid otherwise, answer 404 with error         *)
(* "Producto no encontrado" and no data, and the table is unchanged: PUT   *)
(* does not create the row.                                                *)
(***************************************************************************)
C9_AbsentIdNotFound ==
    [][(/\ OnId(request')
        /\ isInt(request'.id)
        /\ PkOf(request'.id) \notin Ids(table)
        /\ request'.method = "PUT" => ExpectedPutErrors(request'.id, request'.body) = <<>>) =>
         /\ response' = Response(404, {"error"}, "none", <<>>, "Producto no encontrado", <<>>)
         /\ table' = table
         /\ nextId' = nextId]_vars

\* a valid PUT on an absent id, answered 404, on a table that holds a product
C9_Witness ==
    /\ request.method = "PUT"
    /\ response.status = 404
    /\ table # {}
    /\ PkOf(request.id) \notin Ids(table)

(***************************************************************************)
(* C10: under every interleaving of concurrent requests on one product the *)
(* table ends as some serial order of them leaves it (n concurrent toggles *)
(* flip availability n times), and once a DELETE was answered 200 the row  *)
(* is not in the table, whatever PUT or PATCH raced with it.               *)
(***************************************************************************)
RECURSIVE SerialTable(_, _, _)
\* the table after the clients' requests are served one by one in an order
SerialTable(tbl, order, i) ==
    IF i > Len(order) THEN tbl
    ELSE SerialTable(Serve(tbl, nextId, clients[order[i]].request).table, order, i + 1)

====
